---- MODULE Spec2Model ----
(***************************************************************************)
(* The in-memory execution repository of ExecutionService                 *)
(* (src/repositories/in_memory.py): execution records, their log buffers, *)
(* the creation order, and the operations on them.  Every operation runs  *)
(* under the repository's single RLock, so each is one atomic action in   *)
(* Spec, SpecLogs, SpecList, SpecFrame and SpecPoll; SpecConc and SpecUpd *)
(* run the operations of two threads statement by statement, with the     *)
(* lock.                                                                  *)
(***************************************************************************)
EXTENDS Integers, Sequences, FiniteSets, TLC

(* ---------------------------------------------------------------------- *)
(* Bounds of the exploration and the small input sets                     *)
(* ---------------------------------------------------------------------- *)
\* the last value of the clock
MaxClock == 1
\* the longest creation order explored under Spec and SpecLogs, and under
\* SpecList
MaxOrder == 2
MaxListOrder == 3
\* the longest log buffer explored under Spec and under SpecLogs
MaxStoreLog == 1
MaxLog == 3
\* the arguments of read_logs and list_executions
MaxOffset == 4
MaxLimit == 2

\* Spec and SpecLogs create e1 only, so that e2 is an id the store has no
\* record of; SpecList creates the three ids of ListIds
Ids == {"e1", "e2"}
ListIds == {"e1", "e2", "e3"}
StoreCreateIds == {"e1"}
StoreLineSeqs == {<<"l1">>}
LineSeqs == {<<"l1">>, <<"l2", "l1">>}
Offsets == 0..MaxOffset
Limits == 1..MaxLimit

\* Python's None
None == "None"

\* ExecutionStatus (models/schemas.py)
QUEUED == "queued"
RUNNING == "running"
COMPLETED == "completed"
FAILED == "failed"
CANCELED == "canceled"
TIMEOUT == "timeout"
ExecutionStatus == {QUEUED, RUNNING, COMPLETED, FAILED, CANCELED, TIMEOUT}

\* the status set of read_logs
TerminalStatuses == {COMPLETED, FAILED, CANCELED, TIMEOUT}

\* the caller's arguments of create_execution other than the id
RequestA ==
  [git |-> "repoA", entrypoint |-> "run.py", parameters |-> "x=1",
   environment |-> "simulated", correlation_id |-> "c1"]
RequestB ==
  [git |-> "repoB", entrypoint |-> "main.py", parameters |-> "empty",
   environment |-> "local", correlation_id |-> None]
Requests == {RequestA, RequestB}

\* the result and error arguments of update_status
Results == {None, "ok"}
Errors == {None, "boom"}

\* the statuses the runs of SpecList move a record to, and the status
\* filters of their listings
ListStatuses == {COMPLETED}
ListFilters == {None, QUEUED, COMPLETED, FAILED}

\* the statuses the runs of SpecFrame move a record to
FrameStatuses == {RUNNING, COMPLETED}

\* SpecConc: the threads, the ids they create, the id they append to, update
\* and get, the lines they append (each line differs from every other, so
\* that the place of each in the buffer shows), and the status and result of
\* their updates
Threads == {"t1", "t2"}
ConcCreateIds == {"e1", "e2"}
ConcIds == {"e1"}
ConcLineSeqs == {<<"a1", "a2">>, <<"b1">>}
ConcStatuses == {COMPLETED}
ConcResults == {"ok"}

\* SpecUpd: the statuses of the concurrent update_status calls
UpdStatuses == {RUNNING, COMPLETED, FAILED}

\* SpecPoll: the id whose log is polled and the statuses its runner sets
PollId == "e1"
PollStatuses == {RUNNING, COMPLETED, FAILED}

\* a thread that is in no call
IdleFrame ==
  [pc |-> "idle", id |-> None, lines |-> <<>>, i |-> 0, block |-> 0,
   status |-> None, result |-> None, error |-> None,
   totals |-> <<>>, todo |-> {}]

\* executions    self._executions: id -> ExecutionDetail
\* logs          self._logs: id -> list of lines
\* created_order self._created_order: the ids in the order of their creates
\* now           the value datetime.utcnow() returns
\* ret           the last call: its operation, its arguments and, in val, the
\*               value it returned; kind tells a returned None ("none") from a
\*               record, a (lines, next_offset, eof) triple and a list
VARIABLES executions, logs, created_order, now, ret

\* The state of the callers' threads, used by SpecConc, where the body of
\* each `with self._lock:` block runs statement by statement:
\* lock     the thread that holds self._lock, or None
\* frames   for each thread, the statement it is at and its arguments and
\*          local variables
\* blocks   the append_logs calls in the order they acquired the lock: the
\*          id, the lines, and the number n of lines copied so far
\* committed for each id, the record as the last complete operation on it
\*          left it
\* serial   for each id, the record as the create_execution and
\*          update_status calls leave it when they are applied whole, one
\*          at a time, in the order in which they acquired the lock
VARIABLES lock, frames, blocks, committed, serial

\* The state of the clients of SpecPoll:
\* poller      the caller that polls the log of PollId: the offset of its
\*             next read_logs, the lines it has received so far, and the eof
\*             of its last read
\* runner_done the runner of PollId has made its last update_status and
\*             append_logs
VARIABLES poller, runner_done

conc == <<lock, frames, blocks, committed, serial, poller, runner_done>>

vars == <<executions, logs, created_order, now, ret, lock, frames, blocks, committed,
          serial, poller, runner_done>>

(* ---------------------------------------------------------------------- *)
(* Helpers: Python's dict, min, list slices, stable sort                  *)
(* ---------------------------------------------------------------------- *)
Min(a, b) == IF a <= b THEN a ELSE b

Max(a, b) == IF a >= b THEN a ELSE b

\* d[k] = v on a dict
DictSet(d, k, v) == [x \in (DOMAIN d) \cup {k} |-> IF x = k THEN v ELSE d[x]]

\* d.get(k, default)
DictGet(d, k, default) == IF k \in DOMAIN d THEN d[k] ELSE default

\* PySlice with the end index taken as inclusive
PySlice_InclusiveEnd(s, lo, hi) ==
  LET l == Min(lo, Len(s))
      h == Min(hi + 1, Len(s))
  IN  [i \in 1..Max(0, h - l) |-> s[l + i]]

\* s[lo:hi] for lo, hi >= 0: indices are clamped to the length, an empty
\* range gives the empty list
PySlice(s, lo, hi) ==
  LET l == Min(lo, Len(s))
      h == Min(hi, Len(s))
  IN  [i \in 1..Max(0, h - l) |-> s[l + i]]

\* PyTail with one element too many: s[-(n + 1):]
PyTail_OneMore(s, n) ==
  [i \in 1..Min(n + 1, Len(s)) |-> s[Len(s) - Min(n + 1, Len(s)) + i]]

\* s[-n:] : the last n elements for n > 0, and the whole list for n = 0
\* (-0 is 0)
PyTail(s, n) ==
  IF n = 0 THEN s
  ELSE [i \in 1..Min(n, Len(s)) |-> s[Len(s) - Min(n, Len(s)) + i]]

\* one record inserted into a list that is sorted by created_at descending:
\* after every element whose key is >= its own (the sort is stable)
InsertDesc(sorted, r) ==
  LET before == {i \in 1..Len(sorted) : sorted[i].created_at >= r.created_at}
      k == IF before = {} THEN 0 ELSE CHOOSE i \in before : \A j \in before : j <= i
  IN  SubSeq(sorted, 1, k) \o <<r>> \o SubSeq(sorted, k + 1, Len(sorted))

\* records.sort(key=lambda r: r.created_at, reverse=True): stable, so records
\* with equal created_at keep their order
RECURSIVE SortByCreatedAtDesc(_)
SortByCreatedAtDesc(records) ==
  IF records = <<>> THEN <<>>
  ELSE InsertDesc(SortByCreatedAtDesc(SubSeq(records, 1, Len(records) - 1)),
                  records[Len(records)])

(* ---------------------------------------------------------------------- *)
(* Initial state: InMemoryExecutionRepository.__init__                    *)
(* ---------------------------------------------------------------------- *)
Init ==
  /\ executions = <<>>
  /\ logs = <<>>
  /\ created_order = <<>>
  /\ now = 0
  /\ ret = [op |-> "init", kind |-> "none", val |-> None]
  /\ lock = None
  /\ frames = [t \in Threads |-> IdleFrame]
  /\ blocks = <<>>
  /\ committed = <<>>
  /\ serial = <<>>
  /\ poller = [offset |-> 0, received |-> <<>>, eof |-> FALSE]
  /\ runner_done = FALSE

(* ---------------------------------------------------------------------- *)
(* Operations                                                             *)
(* ---------------------------------------------------------------------- *)

\* the ExecutionDetail built by create_execution; logs_pointer is
\* f"mem:{execution_id}"
NewDetail(execution_id, req, t) ==
  [execution_id |-> execution_id,
   status |-> QUEUED,
   environment |-> req.environment,
   created_at |-> t,
   updated_at |-> t,
   correlation_id |-> req.correlation_id,
   git |-> req.git,
   entrypoint |-> req.entrypoint,
   parameters |-> req.parameters,
   result |-> None,
   error |-> None,
   logs_pointer |-> <<"mem:", execution_id>>]

\* LogsSetDefault left out: create_execution makes no buffer
LogsSetDefault_Skip(l, execution_id) == l

\* LogsSetDefault as a plain assignment: self._logs[execution_id] = []
LogsSetDefault_Reset(l, execution_id) == DictSet(l, execution_id, <<>>)

\* self._logs.setdefault(execution_id, [])
LogsSetDefault(l, execution_id) ==
  IF execution_id \in DOMAIN l THEN l ELSE DictSet(l, execution_id, <<>>)

\* create_execution: the record is stored under the id whether or not the id
\* already has one, the id is appended to the creation order, and an
\* existing log buffer is kept
create_execution(execution_id, req) ==
  /\ LET detail == NewDetail(execution_id, req, now)
     IN  /\ executions' = DictSet(executions, execution_id, detail)
         /\ created_order' = Append(created_order, execution_id)
         /\ logs' = LogsSetDefault(logs, execution_id)
         /\ ret' = [op |-> "create_execution", id |-> execution_id,
                    kind |-> "detail", val |-> detail]
  /\ UNCHANGED now

\* get_execution with pop in place of get: the record leaves the store
get_execution_Pop(execution_id) ==
  /\ ret' = IF execution_id \in DOMAIN executions
              THEN [op |-> "get_execution", id |-> execution_id,
                    kind |-> "detail", val |-> executions[execution_id]]
              ELSE [op |-> "get_execution", id |-> execution_id,
                    kind |-> "none", val |-> None]
  /\ executions' = [x \in (DOMAIN executions) \ {execution_id} |-> executions[x]]
  /\ UNCHANGED <<logs, created_order, now>>

\* get_execution: self._executions.get(execution_id)
get_execution(execution_id) ==
  /\ ret' = IF execution_id \in DOMAIN executions
              THEN [op |-> "get_execution", id |-> execution_id,
                    kind |-> "detail", val |-> executions[execution_id]]
              ELSE [op |-> "get_execution", id |-> execution_id,
                    kind |-> "none", val |-> None]
  /\ UNCHANGED <<executions, logs, created_order, now>>

\* UpdatedDetail with result and error assigned whether or not they are given
UpdatedDetail_Overwrite(detail, status, result, error, t) ==
  [detail EXCEPT !.status = status,
                 !.result = result,
                 !.error = error,
                 !.updated_at = t]

\* UpdatedDetail with created_at stamped too
UpdatedDetail_TouchCreated(detail, status, result, error, t) ==
  [detail EXCEPT !.status = status,
                 !.result = IF result # None THEN result ELSE @,
                 !.error = IF error # None THEN error ELSE @,
                 !.created_at = t,
                 !.updated_at = t]

\* the record after update_status's assignments
UpdatedDetail(detail, status, result, error, t) ==
  [detail EXCEPT !.status = status,
                 !.result = IF result # None THEN result ELSE @,
                 !.error = IF error # None THEN error ELSE @,
                 !.updated_at = t]

\* update_status: None for an unknown id, else the record mutated in place
update_status(execution_id, status, result, error) ==
  /\ IF execution_id \notin DOMAIN executions
       THEN /\ ret' = [op |-> "update_status", id |-> execution_id,
                       kind |-> "none", val |-> None]
            /\ UNCHANGED executions
       ELSE LET detail == UpdatedDetail(executions[execution_id], status, result, error, now)
            IN  /\ executions' = [executions EXCEPT ![execution_id] = detail]
                /\ ret' = [op |-> "update_status", id |-> execution_id,
                           kind |-> "detail", val |-> detail]
  /\ UNCHANGED <<logs, created_order, now>>

\* AppendedLogs with the lines for an id without a record dropped
AppendedLogs_DropUnknown(l, execution_id, lines) ==
  IF execution_id \notin DOMAIN executions THEN l
  ELSE [l EXCEPT ![execution_id] = @ \o lines]

\* the log store after append_logs: a missing buffer is created, then extended
AppendedLogs(l, execution_id, lines) ==
  LET l1 == IF execution_id \notin DOMAIN l THEN DictSet(l, execution_id, <<>>) ELSE l
  IN  [l1 EXCEPT ![execution_id] = @ \o lines]

\* append_logs
append_logs(execution_id, lines) ==
  /\ logs' = AppendedLogs(logs, execution_id, lines)
  /\ ret' = [op |-> "append_logs", id |-> execution_id, kind |-> "none", val |-> None]
  /\ UNCHANGED <<executions, created_order, now>>

\* ReadLogsResult with eof taken from the offset of the read, not from its end
ReadLogsResult_EofAtOffset(execution_id, offset, limit) ==
  LET lines == DictGet(logs, execution_id, <<>>)
      total == Len(lines)
      end == Min(total, offset + limit)
      slice_lines == PySlice(lines, offset, end)
      terminal == /\ execution_id \in DOMAIN executions
                  /\ executions[execution_id].status \in TerminalStatuses
      eof == terminal /\ offset >= total
  IN  [lines |-> slice_lines, next_offset |-> end, eof |-> eof]

\* ReadLogsResult with the end of the page taken from the limit alone
ReadLogsResult_EndIsLimit(execution_id, offset, limit) ==
  LET lines == DictGet(logs, execution_id, <<>>)
      total == Len(lines)
      end == Min(total, limit)
      slice_lines == PySlice(lines, offset, end)
      terminal == /\ execution_id \in DOMAIN executions
                  /\ executions[execution_id].status \in TerminalStatuses
      eof == terminal /\ end >= total
  IN  [lines |-> slice_lines, next_offset |-> end, eof |-> eof]

\* the (lines, next_offset, eof) triple of read_logs
ReadLogsResult(execution_id, offset, limit) ==
  LET lines == DictGet(logs, execution_id, <<>>)
      total == Len(lines)
      end == Min(total, offset + limit)
      slice_lines == PySlice(lines, offset, end)
      terminal == /\ execution_id \in DOMAIN executions
                  /\ executions[execution_id].status \in TerminalStatuses
      eof == terminal /\ end >= total
  IN  [lines |-> slice_lines, next_offset |-> end, eof |-> eof]

\* read_logs
read_logs(execution_id, offset, limit) ==
  /\ ret' = [op |-> "read_logs", id |-> execution_id, offset |-> offset,
             limit |-> limit, kind |-> "triple",
             val |-> ReadLogsResult(execution_id, offset, limit)]
  /\ UNCHANGED <<executions, logs, created_order, now>>

\* ListResult with the filter applied to all records before the limit
ListResult_FilterThenLimit(limit, status) ==
  LET present == SelectSeq(created_order, LAMBDA i : i \in DOMAIN executions)
      records == [k \in 1..Len(present) |-> executions[present[k]]]
      filtered == IF status # None
                    THEN SelectSeq(records, LAMBDA r : r.status = status)
                    ELSE records
  IN  SortByCreatedAtDesc(PyTail(filtered, limit))

\* the list returned by list_executions; status None is no filter
ListResult(limit, status) ==
  LET ids == PyTail(created_order, limit)
      present == SelectSeq(ids, LAMBDA i : i \in DOMAIN executions)
      records == [k \in 1..Len(present) |-> executions[present[k]]]
      filtered == IF status # None
                    THEN SelectSeq(records, LAMBDA r : r.status = status)
                    ELSE records
  IN  SortByCreatedAtDesc(filtered)

\* list_executions
list_executions(limit, status) ==
  /\ ret' = [op |-> "list_executions", limit |-> limit, status |-> status,
             kind |-> "list", val |-> ListResult(limit, status)]
  /\ UNCHANGED <<executions, logs, created_order, now>>

\* Tick with the clock stepping backwards
Tick_Backwards ==
  /\ now > -MaxClock
  /\ now' = now - 1
  /\ UNCHANGED <<executions, logs, created_order, ret>>

\* the clock read by datetime.utcnow() moves on
Tick ==
  /\ now < MaxClock
  /\ now' = now + 1
  /\ UNCHANGED <<executions, logs, created_order, ret>>

\* the room left in the creation order and in a log buffer, within the bounds
OrderRoom(max) == Len(created_order) < max

LogRoom(execution_id, lines, max) ==
  Len(DictGet(logs, execution_id, <<>>)) + Len(lines) <= max

(* ---------------------------------------------------------------------- *)
(* Spec: one execution from creation on, with every status, result and    *)
(* error and the lines appended for it, beside an id that is never created *)
(* ---------------------------------------------------------------------- *)
Next ==
  \/ \E id \in StoreCreateIds, req \in Requests :
        OrderRoom(MaxOrder) /\ create_execution(id, req) /\ UNCHANGED conc
  \/ \E id \in Ids : get_execution(id) /\ UNCHANGED conc
  \/ \E id \in Ids, st \in ExecutionStatus, res \in Results, err \in Errors :
        update_status(id, st, res, err) /\ UNCHANGED conc
  \/ \E id \in StoreCreateIds, lines \in StoreLineSeqs :
        LogRoom(id, lines, MaxStoreLog) /\ append_logs(id, lines) /\ UNCHANGED conc
  \/ Tick /\ UNCHANGED conc

Spec == Init /\ [][Next]_vars

(* ---------------------------------------------------------------------- *)
(* SpecLogs: the log buffers and their paginated reads                    *)
(* ---------------------------------------------------------------------- *)
NextLogs ==
  \/ \E id \in StoreCreateIds :
        OrderRoom(MaxOrder) /\ create_execution(id, RequestA) /\ UNCHANGED conc
  \/ \E id \in Ids, st \in ExecutionStatus :
        update_status(id, st, None, None) /\ UNCHANGED conc
  \/ \E id \in Ids, lines \in LineSeqs :
        LogRoom(id, lines, MaxLog) /\ append_logs(id, lines) /\ UNCHANGED conc
  \/ \E id \in Ids, offset \in Offsets, limit \in Limits : read_logs(id, offset, limit) /\ UNCHANGED conc

SpecLogs == Init /\ [][NextLogs]_vars

(* ---------------------------------------------------------------------- *)
(* SpecList: several executions and their listing                         *)
(* ---------------------------------------------------------------------- *)
NextList ==
  \/ \E id \in ListIds :
        OrderRoom(MaxListOrder) /\ create_execution(id, RequestA) /\ UNCHANGED conc
  \/ \E id \in ListIds, st \in ListStatuses :
        update_status(id, st, None, None) /\ UNCHANGED conc
  \/ \E limit \in Limits, st \in ListFilters : list_executions(limit, st) /\ UNCHANGED conc
  \/ Tick /\ UNCHANGED conc

SpecList == Init /\ [][NextList]_vars

(* ---------------------------------------------------------------------- *)
(* SpecFrame: two executions, their updates and their log buffers, for    *)
(* what an operation on one of them leaves alone                          *)
(* ---------------------------------------------------------------------- *)
NextFrame ==
  \/ \E id \in Ids :
        OrderRoom(MaxOrder) /\ create_execution(id, RequestA) /\ UNCHANGED conc
  \/ \E id \in Ids, st \in FrameStatuses, res \in Results :
        update_status(id, st, res, None) /\ UNCHANGED conc
  \/ \E id \in Ids, lines \in StoreLineSeqs :
        LogRoom(id, lines, MaxStoreLog) /\ append_logs(id, lines) /\ UNCHANGED conc
  \/ Tick /\ UNCHANGED conc

SpecFrame == Init /\ [][NextFrame]_vars

(* ---------------------------------------------------------------------- *)
(* SpecConc: two threads call the store concurrently.  A call waits for   *)
(* self._lock, runs the statements of its `with self._lock:` block one by *)
(* one and gives the lock back when it returns.  get_execution hands out  *)
(* the stored object itself, which its caller then reads without the lock. *)
(* ---------------------------------------------------------------------- *)

\* the longest log buffer at which a call of append_logs still starts
MaxConcLog == 2

\* LockFree without mutual exclusion
LockFree_NoExclusion(t) == TRUE

\* `with self._lock:` lets the thread in when no other thread holds the
\* RLock
LockFree(t) == lock \in {None, t}

\* the thread is in no call; the frame of a thread that returns, and of one
\* that moves on to a statement
Idle(t) == frames[t].pc = "idle"

Return(t) == [frames EXCEPT ![t] = IdleFrame]

Goto(t, pc) == [frames EXCEPT ![t].pc = pc]

\* a thread calls an operation: it has its arguments and waits for the lock
call_create(t, execution_id) ==
  /\ Idle(t)
  /\ frames' = [frames EXCEPT ![t] = [IdleFrame EXCEPT !.pc = "create", !.id = execution_id]]
  /\ UNCHANGED <<executions, logs, created_order, now, ret, lock, blocks, committed, serial, poller, runner_done>>

call_append(t, execution_id, lines) ==
  /\ Idle(t)
  /\ frames' = [frames EXCEPT ![t] =
                  [IdleFrame EXCEPT !.pc = "append", !.id = execution_id, !.lines = lines]]
  /\ UNCHANGED <<executions, logs, created_order, now, ret, lock, blocks, committed, serial, poller, runner_done>>

call_update(t, execution_id, status, result, error) ==
  /\ Idle(t)
  /\ frames' = [frames EXCEPT ![t] =
                  [IdleFrame EXCEPT !.pc = "update", !.id = execution_id,
                                    !.status = status, !.result = result, !.error = error]]
  /\ UNCHANGED <<executions, logs, created_order, now, ret, lock, blocks, committed, serial, poller, runner_done>>

call_get(t, execution_id) ==
  /\ Idle(t)
  /\ frames' = [frames EXCEPT ![t] = [IdleFrame EXCEPT !.pc = "get", !.id = execution_id]]
  /\ UNCHANGED <<executions, logs, created_order, now, ret, lock, blocks, committed, serial, poller, runner_done>>

call_stats(t) ==
  /\ Idle(t)
  /\ frames' = [frames EXCEPT ![t] = [IdleFrame EXCEPT !.pc = "stats"]]
  /\ UNCHANGED <<executions, logs, created_order, now, ret, lock, blocks, committed, serial, poller, runner_done>>

\* create_execution, lines 29-45: the lock is taken, the record built and
\* stored
create_45(t) ==
  /\ frames[t].pc = "create"
  /\ LockFree(t)
  /\ lock' = t
  /\ executions' = DictSet(executions, frames[t].id,
                           NewDetail(frames[t].id, RequestA, now))
  /\ frames' = Goto(t, "create_46")
  /\ UNCHANGED <<logs, created_order, now, ret, blocks, committed, serial, poller, runner_done>>

\* line 46
create_46(t) ==
  /\ frames[t].pc = "create_46"
  /\ created_order' = Append(created_order, frames[t].id)
  /\ frames' = Goto(t, "create_47")
  /\ UNCHANGED <<executions, logs, now, ret, lock, blocks, committed, serial, poller, runner_done>>

\* lines 47-48: setdefault, return, and the lock given back
create_47(t) ==
  /\ frames[t].pc = "create_47"
  /\ logs' = LogsSetDefault(logs, frames[t].id)
  /\ ret' = [op |-> "create_execution", id |-> frames[t].id,
             kind |-> "detail", val |-> executions[frames[t].id]]
  /\ committed' = DictSet(committed, frames[t].id, executions[frames[t].id])
  /\ serial' = DictSet(serial, frames[t].id, executions[frames[t].id])
  /\ UNCHANGED <<poller, runner_done>>
  /\ lock' = None
  /\ frames' = Return(t)
  /\ UNCHANGED <<executions, created_order, now, blocks>>

\* append_logs, lines 80-82: the lock is taken and a missing buffer made
append_81(t) ==
  /\ frames[t].pc = "append"
  /\ LockFree(t)
  /\ lock' = t
  /\ logs' = IF frames[t].id \notin DOMAIN logs
               THEN DictSet(logs, frames[t].id, <<>>)
               ELSE logs
  /\ blocks' = Append(blocks, [id |-> frames[t].id, lines |-> frames[t].lines, n |-> 0])
  /\ frames' = [frames EXCEPT ![t].pc = "append_83", ![t].block = Len(blocks) + 1]
  /\ UNCHANGED <<executions, created_order, now, ret, committed, serial, poller, runner_done>>

\* line 83: extend copies the lines into the buffer one after the other;
\* after the last one the call returns and gives the lock back
append_83(t) ==
  /\ frames[t].pc = "append_83"
  /\ LET f == frames[t]
         last == f.i + 1 = Len(f.lines)
     IN  /\ logs' = [logs EXCEPT ![f.id] = Append(@, f.lines[f.i + 1])]
         /\ blocks' = [blocks EXCEPT ![f.block].n = @ + 1]
         /\ IF last
              THEN /\ ret' = [op |-> "append_logs", id |-> f.id,
                              kind |-> "none", val |-> None]
                   /\ lock' = None
                   /\ frames' = Return(t)
              ELSE /\ frames' = [frames EXCEPT ![t].i = @ + 1]
                   /\ UNCHANGED <<ret, lock>>
  /\ UNCHANGED <<executions, created_order, now, committed, serial, poller, runner_done>>

\* update_status, lines 65-68: the lock is taken and the record looked up;
\* None is returned for an unknown id
update_66(t) ==
  /\ frames[t].pc = "update"
  /\ LockFree(t)
  /\ IF frames[t].id \notin DOMAIN executions
       THEN /\ ret' = [op |-> "update_status", id |-> frames[t].id,
                       kind |-> "none", val |-> None]
            /\ lock' = None
            /\ frames' = Return(t)
            /\ UNCHANGED serial
       ELSE /\ lock' = t
            /\ frames' = Goto(t, "update_69")
            /\ serial' =
                 LET base == DictGet(serial, frames[t].id, executions[frames[t].id])
                 IN  DictSet(serial, frames[t].id,
                             UpdatedDetail(base, frames[t].status, frames[t].result,
                                           frames[t].error, base.updated_at))
            /\ UNCHANGED ret
  /\ UNCHANGED <<executions, logs, created_order, now, blocks, committed, poller,
                 runner_done>>

\* line 69: detail.status = status, on the stored object
update_69(t) ==
  /\ frames[t].pc = "update_69"
  /\ executions' = [executions EXCEPT ![frames[t].id].status = frames[t].status]
  /\ frames' = Goto(t, "update_70")
  /\ UNCHANGED <<logs, created_order, now, ret, lock, blocks, committed, serial, poller, runner_done>>

\* lines 70-71
update_70(t) ==
  /\ frames[t].pc = "update_70"
  /\ executions' = IF frames[t].result # None
                     THEN [executions EXCEPT ![frames[t].id].result = frames[t].result]
                     ELSE executions
  /\ frames' = Goto(t, "update_72")
  /\ UNCHANGED <<logs, created_order, now, ret, lock, blocks, committed, serial, poller, runner_done>>

\* lines 72-73
update_72(t) ==
  /\ frames[t].pc = "update_72"
  /\ executions' = IF frames[t].error # None
                     THEN [executions EXCEPT ![frames[t].id].error = frames[t].error]
                     ELSE executions
  /\ frames' = Goto(t, "update_74")
  /\ UNCHANGED <<logs, created_order, now, ret, lock, blocks, committed, serial, poller, runner_done>>

\* lines 74-75: updated_at, return, and the lock given back
update_74(t) ==
  /\ frames[t].pc = "update_74"
  /\ executions' = [executions EXCEPT ![frames[t].id].updated_at = now]
  /\ committed' = DictSet(committed, frames[t].id, executions'[frames[t].id])
  /\ serial' = [serial EXCEPT ![frames[t].id].updated_at = now]
  /\ UNCHANGED <<poller, runner_done>>
  /\ ret' = [op |-> "update_status", id |-> frames[t].id,
             kind |-> "detail", val |-> executions'[frames[t].id]]
  /\ lock' = None
  /\ frames' = Return(t)
  /\ UNCHANGED <<logs, created_order, now, blocks>>

\* get_execution, lines 53-54: under the lock, the stored object is looked
\* up and returned; the caller then holds the object itself, not a copy
get_53(t) ==
  /\ frames[t].pc = "get"
  /\ LockFree(t)
  /\ IF frames[t].id \in DOMAIN executions
       THEN /\ ret' = [op |-> "get_execution", id |-> frames[t].id,
                       kind |-> "detail", val |-> executions[frames[t].id]]
            /\ frames' = Goto(t, "read")
       ELSE /\ ret' = [op |-> "get_execution", id |-> frames[t].id,
                       kind |-> "none", val |-> None]
            /\ frames' = Return(t)
  /\ UNCHANGED <<executions, logs, created_order, now, lock, blocks, committed, serial, poller, runner_done>>

\* the caller of get_execution reads the fields of the object it was given,
\* without the lock; beside what it reads, ret notes the record as the last
\* complete operation left it (a list of one record, or of none)
read_fields(t) ==
  /\ frames[t].pc = "read"
  /\ ret' = [op |-> "read_fields", id |-> frames[t].id,
             kind |-> "detail", val |-> executions[frames[t].id],
             committed |-> IF frames[t].id \in DOMAIN committed
                             THEN <<committed[frames[t].id]>>
                             ELSE <<>>]
  /\ frames' = Return(t)
  /\ UNCHANGED <<executions, logs, created_order, now, lock, blocks, committed, serial, poller, runner_done>>

\* the totals dict of stats before the loop
InitialTotals ==
  [k \in {"total"} \cup ExecutionStatus |->
     IF k = "total" THEN Cardinality(DOMAIN executions) ELSE 0]

\* stats, lines 120-129: the lock is taken and totals made
stats_122(t) ==
  /\ frames[t].pc = "stats"
  /\ LockFree(t)
  /\ lock' = t
  /\ frames' = [frames EXCEPT ![t].pc = "stats_130", ![t].totals = InitialTotals,
                              ![t].todo = DOMAIN executions]
  /\ UNCHANGED <<executions, logs, created_order, now, ret, blocks, committed, serial, poller, runner_done>>

\* lines 130-134: one round of the loop over the records (the status of a
\* record is always one of the six keys of totals), or, after the last, the
\* return of totals and the lock given back
stats_130(t) ==
  /\ frames[t].pc = "stats_130"
  /\ IF frames[t].todo = {}
       THEN /\ ret' = [op |-> "stats", kind |-> "stats", val |-> frames[t].totals]
            /\ lock' = None
            /\ frames' = Return(t)
       ELSE LET id == CHOOSE x \in frames[t].todo : TRUE
                key == executions[id].status
            IN  /\ frames' = [frames EXCEPT ![t].totals[key] = @ + 1,
                                            ![t].todo = @ \ {id}]
                /\ UNCHANGED <<ret, lock>>
  /\ UNCHANGED <<executions, logs, created_order, now, blocks, committed, serial, poller, runner_done>>

\* an id is created once, by one thread
Creatable(execution_id) ==
  /\ execution_id \notin DOMAIN executions
  /\ \A t \in Threads : frames[t].id # execution_id \/ frames[t].pc # "create"

NextConc ==
  \/ \E t \in Threads, id \in ConcCreateIds :
        Creatable(id) /\ call_create(t, id)
  \/ \E t \in Threads, id \in ConcIds, lines \in ConcLineSeqs :
        LogRoom(id, lines, MaxConcLog) /\ call_append(t, id, lines)
  \/ \E t \in Threads, id \in ConcIds, st \in ConcStatuses, res \in ConcResults :
        call_update(t, id, st, res, None)
  \/ \E t \in Threads, id \in ConcIds : call_get(t, id)
  \/ \E t \in Threads : call_stats(t)
  \/ \E t \in Threads : create_45(t)
  \/ \E t \in Threads : create_46(t)
  \/ \E t \in Threads : create_47(t)
  \/ \E t \in Threads : append_81(t)
  \/ \E t \in Threads : append_83(t)
  \/ \E t \in Threads : update_66(t)
  \/ \E t \in Threads : update_69(t)
  \/ \E t \in Threads : update_70(t)
  \/ \E t \in Threads : update_72(t)
  \/ \E t \in Threads : update_74(t)
  \/ \E t \in Threads : get_53(t)
  \/ \E t \in Threads : read_fields(t)
  \/ \E t \in Threads : stats_122(t)
  \/ \E t \in Threads : stats_130(t)
  \/ Tick /\ UNCHANGED conc

SpecConc == Init /\ [][NextConc]_vars

(* ---------------------------------------------------------------------- *)
(* SpecUpd: two threads update one execution concurrently, with every     *)
(* combination of the statuses of UpdStatuses, a result and an error      *)
(* ---------------------------------------------------------------------- *)
NextUpd ==
  \/ \E t \in Threads, id \in ConcIds : Creatable(id) /\ call_create(t, id)
  \/ \E t \in Threads, id \in ConcIds, st \in UpdStatuses, res \in Results, err \in Errors :
        call_update(t, id, st, res, err)
  \/ \E t \in Threads : create_45(t)
  \/ \E t \in Threads : create_46(t)
  \/ \E t \in Threads : create_47(t)
  \/ \E t \in Threads : update_66(t)
  \/ \E t \in Threads : update_69(t)
  \/ \E t \in Threads : update_70(t)
  \/ \E t \in Threads : update_72(t)
  \/ \E t \in Threads : update_74(t)
  \/ Tick /\ UNCHANGED conc

SpecUpd == Init /\ [][NextUpd]_vars

(* ---------------------------------------------------------------------- *)
(* SpecPoll: a runner appends lines for one execution and updates its     *)
(* status until it stops after a terminal status, while a poller reads    *)
(* the log page by page, each read at the next_offset of the one before   *)
(* ---------------------------------------------------------------------- *)

\* the poller's next read_logs, at its offset, and what it keeps of the
\* result
poll(limit) ==
  /\ read_logs(PollId, poller.offset, limit)
  /\ LET r == ReadLogsResult(PollId, poller.offset, limit)
     IN  poller' = [offset |-> r.next_offset,
                    received |-> poller.received \o r.lines,
                    eof |-> r.eof]
  /\ UNCHANGED <<lock, frames, blocks, committed, serial, runner_done>>

\* the runner stops once the execution has a terminal status: it makes no
\* further update_status or append_logs call
runner_stops ==
  /\ ~runner_done
  /\ PollId \in DOMAIN executions
  /\ executions[PollId].status \in TerminalStatuses
  /\ runner_done' = TRUE
  /\ UNCHANGED <<executions, logs, created_order, now, ret, lock, frames, blocks,
                 committed, serial, poller>>

NextPoll ==
  \/ PollId \notin DOMAIN executions /\ create_execution(PollId, RequestA)
       /\ UNCHANGED conc
  \/ \E st \in PollStatuses :
        ~runner_done /\ update_status(PollId, st, None, None) /\ UNCHANGED conc
  \/ \E lines \in LineSeqs :
        ~runner_done /\ LogRoom(PollId, lines, MaxLog) /\ append_logs(PollId, lines)
          /\ UNCHANGED conc
  \/ \E limit \in Limits : poll(limit)
  \/ runner_stops

\* the poller keeps calling
SpecPoll ==
  Init /\ [][NextPoll]_vars /\ WF_vars(\E limit \in Limits : poll(limit))

(* ---------------------------------------------------------------------- *)
(* Properties                                                             *)
(* ---------------------------------------------------------------------- *)

\* a step is a call of the operation with these arguments (the first two
\* conjuncts follow from the third)
CallCreate(id, req) ==
  ret'.op = "create_execution" /\ ret'.id = id /\ create_execution(id, req)

CallGet(id) ==
  ret'.op = "get_execution" /\ ret'.id = id /\ get_execution(id)

CallUpdate(id, st, res, err) ==
  ret'.op = "update_status" /\ ret'.id = id /\ update_status(id, st, res, err)

CallAppend(id, lines) ==
  ret'.op = "append_logs" /\ ret'.id = id /\ append_logs(id, lines)

\* C1: a create for an id that already has a record returns DuplicateId and
\* leaves that record and the creation order as they were.
C1_DuplicateCreateRejected ==
  [][\A id \in Ids, req \in Requests :
       (id \in DOMAIN executions /\ CallCreate(id, req)) =>
          /\ ret'.kind = "DuplicateId"
          /\ executions' = executions
          /\ created_order' = created_order]_vars

\* the slice end the pagination contract names: min(len(buffer), offset + limit)
ContractEnd(buffer, offset, limit) ==
  IF offset + limit <= Len(buffer) THEN offset + limit ELSE Len(buffer)

\* C2: a read of the logs of an existing record has eof false while the
\* status is QUEUED or RUNNING, and eof true exactly when the status is
\* COMPLETED, FAILED, CANCELED or TIMEOUT and the read's end reached the
\* length of the buffer.
C2_EofCorrect ==
  (ret.op = "read_logs" /\ ret.id \in DOMAIN executions) =>
    LET buffer == logs[ret.id]
        status == executions[ret.id].status
        end == ContractEnd(buffer, ret.offset, ret.limit)
    IN  /\ ret.kind = "triple"
        /\ (status \in {QUEUED, RUNNING} => ret.val.eof = FALSE)
        /\ (ret.val.eof = TRUE) <=>
             (status \in {COMPLETED, FAILED, CANCELED, TIMEOUT} /\ end >= Len(buffer))

\* a read past the first line of a finished execution that returned the last
\* lines and eof
C2_Witness ==
  /\ ret.op = "read_logs"
  /\ ret.id \in DOMAIN executions
  /\ executions[ret.id].status \in TerminalStatuses
  /\ ret.offset >= 1
  /\ Len(ret.val.lines) >= 1
  /\ ret.val.eof = TRUE

\* C3: a read of the logs of an existing record returns min(limit,
\* len(buffer) - offset) lines, none when the offset is at or past the end,
\* they are buffer[offset .. end) in order, and next_offset is
\* end = min(len(buffer), offset + limit).
C3_SliceExact ==
  (ret.op = "read_logs" /\ ret.id \in DOMAIN executions) =>
    LET buffer == logs[ret.id]
        end == ContractEnd(buffer, ret.offset, ret.limit)
        n == IF ret.offset >= Len(buffer) THEN 0
             ELSE IF ret.limit <= Len(buffer) - ret.offset THEN ret.limit
             ELSE Len(buffer) - ret.offset
    IN  /\ ret.kind = "triple"
        /\ Len(ret.val.lines) = n
        /\ \A i \in 1..n : ret.val.lines[i] = buffer[ret.offset + i]
        /\ ret.val.next_offset = end

\* a read from the middle of a buffer that stopped before its end
C3_Witness ==
  /\ ret.op = "read_logs"
  /\ ret.id \in DOMAIN executions
  /\ ret.offset >= 1
  /\ Len(ret.val.lines) >= 1
  /\ ret.val.next_offset < Len(logs[ret.id])

\* C4: a read of the logs of an id that has no record returns NotFound,
\* never a (lines, next_offset, eof) triple.
C4_ReadLogsNotFound ==
  (ret.op = "read_logs" /\ ret.id \notin DOMAIN executions) => ret.kind = "none"

CreatedRecordOk(id, req) ==
  LET new == executions'[id]
  IN  /\ id \in DOMAIN executions'
      /\ new.execution_id = id
      /\ new.status = QUEUED
      /\ new.result = None
      /\ new.error = None
      /\ new.created_at = now
      /\ new.updated_at = new.created_at
      /\ new.logs_pointer = <<"mem:", id>>
      /\ new.git = req.git
      /\ new.entrypoint = req.entrypoint
      /\ new.parameters = req.parameters
      /\ new.environment = req.environment
      /\ new.correlation_id = req.correlation_id
      /\ ret'.kind = "detail"
      /\ ret'.val = new
      /\ created_order' = created_order \o <<id>>

C7_UpdateStatus ==
  [][\A id \in Ids, st \in ExecutionStatus, res \in Results, err \in Errors :
       (id \in DOMAIN executions /\ CallUpdate(id, st, res, err)) =>
          LET old == executions[id]
              new == executions'[id]
          IN  /\ new.status = st
              /\ new.result = (IF res = None THEN old.result ELSE res)
              /\ new.error = (IF err = None THEN old.error ELSE err)
              /\ new.updated_at = now
              /\ ret'.kind = "detail"
              /\ ret'.val = new]_vars

\* an update has just returned a record moved back to QUEUED that still
\* carries a result and an error stored by earlier updates, later than its
\* creation
C7_Witness ==
  /\ ret.op = "update_status"
  /\ ret.kind = "detail"
  /\ executions[ret.id] = ret.val
  /\ ret.val.status = QUEUED
  /\ ret.val.result = "ok"
  /\ ret.val.error = "boom"
  /\ ret.val.updated_at > ret.val.created_at

\* C8: a get or an update of the status for an id that has no record returns
\* None (NotFound) and leaves records, log buffers and creation order as they
\* were; a get for any id leaves them as they were and returns the stored
\* record when there is one.
C8_UnknownIdAndGetPure ==
  [][/\ \A id \in Ids :
          CallGet(id) =>
            /\ UNCHANGED <<executions, logs, created_order>>
            /\ (id \notin DOMAIN executions => ret'.kind = "none")
            /\ (id \in DOMAIN executions =>
                  ret'.kind = "detail" /\ ret'.val = executions[id])
     /\ \A id \in Ids, st \in ExecutionStatus, res \in Results, err \in Errors :
          (id \notin DOMAIN executions /\ CallUpdate(id, st, res, err)) =>
            /\ ret'.kind = "none"
            /\ UNCHANGED <<executions, logs, created_order>>]_vars

\* a get or an update for an unknown id has just returned None while the
\* store holds the record and the lines of another id
C8_Witness ==
  /\ ret.op \in {"get_execution", "update_status"}
  /\ ret.kind = "none"
  /\ ret.id \notin DOMAIN executions
  /\ \E other \in DOMAIN executions : Len(logs[other]) >= 1

\* the positions of the last `limit` entries of the creation order
TailPositions(limit) ==
  {p \in 1..Len(created_order) : p > Len(created_order) - limit}

\* the record of id passes the status filter of a listing
PassesFilter(id, status) == status = None \/ executions[id].status = status

\* C9: a listing returns exactly the stored records of the last `limit` ids
\* of the creation order that have the filter status (all of them without a
\* filter): at most `limit` records, each with the filter status, one for
\* each matching entry of the tail, and none for an id outside the tail.
C9_ListTailThenFilter ==
  ret.op = "list_executions" =>
    LET tail == TailPositions(ret.limit)
        val == ret.val
    IN  /\ ret.kind = "list"
        /\ Len(val) <= ret.limit
        /\ \A k \in 1..Len(val) :
              /\ val[k].execution_id \in DOMAIN executions
              /\ val[k] = executions[val[k].execution_id]
              /\ PassesFilter(val[k].execution_id, ret.status)
              /\ \E p \in tail : created_order[p] = val[k].execution_id
        /\ \A id \in ListIds :
              Cardinality({k \in 1..Len(val) : val[k].execution_id = id})
                = Cardinality({p \in tail : /\ created_order[p] = id
                                             /\ PassesFilter(id, ret.status)})

\* a filtered listing has just returned a record, fewer records than its
\* limit, and not the matching record of an id created before the tail
C9_Witness ==
  /\ ret.op = "list_executions"
  /\ ret.status # None
  /\ Len(ret.val) >= 1
  /\ Len(ret.val) < ret.limit
  /\ \E p \in 1..Len(created_order) :
        /\ p \notin TailPositions(ret.limit)
        /\ PassesFilter(created_order[p], ret.status)
        /\ \A q \in TailPositions(ret.limit) : created_order[q] # created_order[p]

\* the position of the last create of id in the creation order
LastCreate(id) ==
  CHOOSE p \in 1..Len(created_order) :
    /\ created_order[p] = id
    /\ \A q \in 1..Len(created_order) : created_order[q] = id => q <= p

\* C10: in a listing, of two records the one whose create was invoked later
\* comes first, also when both carry the same created_at.
C10_ListNewestFirst ==
  ret.op = "list_executions" =>
    \A i, j \in 1..Len(ret.val) :
      (i < j /\ ret.val[i].execution_id # ret.val[j].execution_id) =>
        LastCreate(ret.val[i].execution_id) > LastCreate(ret.val[j].execution_id)

\* the ids of the records a listing returned
ReturnedIds == {ret.val[k].execution_id : k \in 1..Len(ret.val)}

\* the ids at the last `limit` positions of the creation order
TailIds(limit) == {created_order[p] : p \in TailPositions(limit)}

\* C11: a listing with limit N returns at most N records, and every returned
\* record has created_at >= the created_at of every record of the
\* creation-order tail of size N that was not returned.
C11_ReturnedNewestOfTail ==
  ret.op = "list_executions" =>
    /\ Len(ret.val) <= ret.limit
    /\ \A k \in 1..Len(ret.val) :
         \A id \in TailIds(ret.limit) \ ReturnedIds :
           ret.val[k].created_at >= executions[id].created_at

\* C11 as the code has it: a listing with limit N returns at most N records,
\* in the order of created_at descending, and every returned record has
\* created_at >= the created_at of every record outside the creation-order
\* tail of size N; a record of the tail that the status filter left out may
\* be newer than a returned one.
C11_ReturnedNewerThanOlder ==
  ret.op = "list_executions" =>
    /\ Len(ret.val) <= ret.limit
    /\ \A i, j \in 1..Len(ret.val) :
         i < j => ret.val[i].created_at >= ret.val[j].created_at
    /\ \A k \in 1..Len(ret.val) :
         \A id \in (DOMAIN executions) \ TailIds(ret.limit) :
           ret.val[k].created_at >= executions[id].created_at

\* a filtered listing has just returned a record that is older than a record
\* of the tail it left out, while an older record lies outside the tail
C11_Witness ==
  /\ ret.op = "list_executions"
  /\ ret.status # None
  /\ \E k \in 1..Len(ret.val) :
       \E id \in TailIds(ret.limit) \ ReturnedIds :
         ret.val[k].created_at < executions[id].created_at
  /\ (DOMAIN executions) \ TailIds(ret.limit) # {}

\* C13: with a clock that never goes backwards, the updated_at of a record
\* never decreases from one state to the next, whatever the operation, and
\* updated_at >= created_at in every reachable state.
C13_UpdatedAtMonotone ==
  /\ [](\A id \in DOMAIN executions :
          executions[id].updated_at >= executions[id].created_at)
  /\ [][\A id \in DOMAIN executions :
          /\ id \in DOMAIN executions'
          /\ executions'[id].updated_at >= executions[id].updated_at]_vars

\* a record has just been updated at a later clock value than its creation
C13_Witness ==
  /\ ret.op = "update_status"
  /\ ret.kind = "detail"
  /\ executions[ret.id].updated_at > executions[ret.id].created_at

\* C14: on an unchanged buffer the lines of read_logs(id, o, l) followed by
\* the lines of read_logs(id, o + l, l2) are the lines of
\* read_logs(id, o, l + l2), for every offset o >= 0 and limits l, l2 >= 1.
C14_PaginationAssociative ==
  (ret.op = "read_logs") =>
    \A l2 \in Limits :
      ret.val.lines \o ReadLogsResult(ret.id, ret.offset + ret.limit, l2).lines
        = ReadLogsResult(ret.id, ret.offset, ret.limit + l2).lines

\* a read has just returned a full page that does not end the buffer, so the
\* second page is not empty either
C14_Witness ==
  /\ ret.op = "read_logs"
  /\ ret.offset > 0
  /\ Len(ret.val.lines) = ret.limit
  /\ ret.id \in DOMAIN logs
  /\ ret.offset + ret.limit < Len(logs[ret.id])

\* C15: eof is final: once a read_logs for an id has returned eof = true, no
\* further line is produced for that id, so the step that follows such a read
\* leaves the length of the id's buffer as the read saw it.
C15_EofFinal ==
  [][(ret.op = "read_logs" /\ ret.val.eof) =>
       Len(DictGet(logs', ret.id, <<>>)) = Len(DictGet(logs, ret.id, <<>>))]_vars

C20_AppendOnly ==
  [][\A id \in DOMAIN logs :
       /\ id \in DOMAIN logs'
       /\ Len(logs'[id]) >= Len(logs[id])
       /\ SubSeq(logs'[id], 1, Len(logs[id])) = logs[id]]_vars

\* an id has been created twice and appended to before and after its second
\* create
C20_Witness ==
  /\ ret.op = "append_logs"
  /\ Len(SelectSeq(created_order, LAMBDA i : i = ret.id)) >= 2
  /\ Len(logs[ret.id]) >= 2

\* the number of records of a store in each status, and their total
StatusCounts(records) ==
  [k \in {"total"} \cup ExecutionStatus |->
     IF k = "total" THEN Cardinality(DOMAIN records)
     ELSE Cardinality({id \in DOMAIN records : records[id].status = k})]

\* thread t returns from stats in this step
StatsReturns(t) == frames[t].pc = "stats_130" /\ frames'[t].pc = "idle"

\* C12: stats returns, for each of the six statuses, the number of records in
\* that status, and total, the number of records, which is the sum of the six
\* counts; with create_execution and update_status calls of other threads
\* under way, the counts are those of the records as the complete operations
\* left them, never of a partially applied one.
C12_StatsSnapshot ==
  [][\A t \in Threads :
       StatsReturns(t) =>
         /\ ret'.op = "stats"
         /\ ret'.val = StatusCounts(committed)
         /\ ret'.val["total"] = Cardinality(DOMAIN executions)
         /\ ret'.val["total"] =
              ret'.val[QUEUED] + ret'.val[RUNNING] + ret'.val[COMPLETED]
                + ret'.val[FAILED] + ret'.val[CANCELED] + ret'.val[TIMEOUT]]_vars

\* stats has returned the counts of two records in different statuses while
\* the other thread waits for the lock with an update_status call
C12_Witness ==
  /\ ret.op = "stats"
  /\ ret.val["total"] = 2
  /\ ret.val[QUEUED] = 1
  /\ ret.val[COMPLETED] = 1
  /\ \E t \in Threads : frames[t].pc = "update"

\* the lines the append_logs calls of bs have copied into the buffer of id,
\* call after call in the order of bs
RECURSIVE CopiedLines(_, _)
CopiedLines(bs, id) ==
  IF bs = <<>> THEN <<>>
  ELSE LET b == bs[Len(bs)]
       IN  CopiedLines(SubSeq(bs, 1, Len(bs) - 1), id)
             \o (IF b.id = id THEN SubSeq(b.lines, 1, b.n) ELSE <<>>)

\* C17: with append_logs calls of several threads on one id, the lines of
\* each call are in the buffer as one contiguous block in the order of the
\* call, the blocks are in the order in which the calls acquired the lock,
\* and the lines of two calls are never interleaved: a call copies its first
\* line only after every call before it has copied its last.
C17_BlocksInLockOrder ==
  /\ \A id \in DOMAIN logs : logs[id] = CopiedLines(blocks, id)
  /\ \A k \in 1..(Len(blocks) - 1) : blocks[k].n = Len(blocks[k].lines)

\* a call has copied the first of its two lines behind the block of an
\* earlier call while the other thread waits for the lock with a call for the
\* same id
C17_Witness ==
  \E t, u \in Threads :
    /\ frames[t].pc = "append_83"
    /\ frames[t].i = 1
    /\ frames[t].block >= 2
    /\ frames[u].pc = "append"
    /\ frames[u].id = frames[t].id

\* C18: under every interleaving of create_execution(id) with append_logs(id)
\* calls no buffer is lost: a line that is in the buffer of id stays there,
\* at its index, in the step in which create_execution makes or keeps the
\* buffer and in every other step.
C18_NoLostBuffer ==
  [][\A id \in ConcCreateIds :
       \A k \in 1..Len(DictGet(logs, id, <<>>)) :
         /\ id \in DOMAIN logs'
         /\ k <= Len(logs'[id])
         /\ logs'[id][k] = logs[id][k]]_vars

\* create_execution has returned for an id whose buffer held lines before
\* the record was stored, while the other thread waits for the lock with an
\* append_logs call for the id
C18_Witness ==
  /\ ret.op = "create_execution"
  /\ Len(created_order) = 1
  /\ Len(logs[ret.id]) >= 1
  /\ \E t \in Threads : frames[t].pc = "append" /\ frames[t].id = ret.id

\* C19: a caller that got a record from get_execution and reads its fields
\* while another thread runs update_status on the id never sees a partially
\* applied update: what it reads is the record as the last complete
\* operation left it.
C19_ReadersSeeCommitted ==
  ret.op = "read_fields" => <<ret.val>> = ret.committed

\* C24: log offsets are monotonic: the next_offset of every read_logs is >=
\* the offset of the read, also when the offset is larger than the length of
\* the buffer.
C24_NextOffsetNotBefore ==
  ret.op = "read_logs" => ret.val.next_offset >= ret.offset

\* C24 as the code has it: next_offset is min(len(buffer), offset + limit);
\* it is >= the offset of the read when the offset is within the buffer, and
\* it is the length of the buffer, which is less than the offset, when the
\* offset is past the end; it is never past the end, so a caller that starts
\* at 0 and feeds next_offset back never moves backwards.
C24_NextOffsetWithinBuffer ==
  ret.op = "read_logs" =>
    LET total == Len(DictGet(logs, ret.id, <<>>))
    IN  /\ ret.val.next_offset <= total
        /\ ret.offset <= total => ret.val.next_offset >= ret.offset
        /\ ret.offset > total => ret.val.next_offset = total

\* a read at an offset past the end of a buffer that holds lines has just
\* returned a next_offset before its offset
C24_Witness ==
  /\ ret.op = "read_logs"
  /\ ret.id \in DOMAIN logs
  /\ Len(logs[ret.id]) >= 1
  /\ ret.offset > Len(logs[ret.id])
  /\ ret.val.next_offset < ret.offset

\* the fields of a record that update_status does not assign
KeptFields ==
  {"execution_id", "environment", "git", "entrypoint", "parameters",
   "correlation_id", "created_at", "logs_pointer"}

\* C23: update_status(id, ...) changes only status, result, error and
\* updated_at of the record of id: the other fields of that record, every
\* other record, every log buffer and the creation order stay as they were;
\* append_logs(id, lines) changes only the log buffer of id: every record
\* (updated_at included), every other buffer and the creation order stay as
\* they were.
C23_FrameEffects ==
  [][\A id \in Ids :
       /\ (\E st \in ExecutionStatus, res \in Results, err \in Errors :
             CallUpdate(id, st, res, err)) =>
            /\ logs' = logs
            /\ created_order' = created_order
            /\ DOMAIN executions' = DOMAIN executions
            /\ \A x \in DOMAIN executions :
                 \/ x # id /\ executions'[x] = executions[x]
                 \/ x = id /\ \A f \in KeptFields :
                                executions'[x][f] = executions[x][f]
       /\ (\E lines \in StoreLineSeqs : CallAppend(id, lines)) =>
            /\ executions' = executions
            /\ created_order' = created_order
            /\ \A x \in DOMAIN logs :
                 x # id => (x \in DOMAIN logs' /\ logs'[x] = logs[x])]_vars

\* two records and two buffers with lines exist, and a record created at
\* clock 0 has been updated at a later clock value after its lines were
\* appended
C23_Witness ==
  /\ ret.op = "update_status"
  /\ ret.kind = "detail"
  /\ Cardinality(DOMAIN executions) = 2
  /\ \A x \in DOMAIN logs : Len(logs[x]) >= 1
  /\ executions[ret.id].updated_at > executions[ret.id].created_at
  /\ executions[ret.id].result # None

\* C26: a record whose result is set has a terminal status: no record in
\* status QUEUED or RUNNING carries a result.
C26_ResultOnlyTerminal ==
  \A id \in DOMAIN executions :
    executions[id].result # None => executions[id].status \in TerminalStatuses

\* C25: the creation order holds each id at most once and holds exactly the
\* ids that have a record, so a listing never returns the same record twice.
C25_OrderHoldsEachIdOnce ==
  /\ \A i, j \in 1..Len(created_order) :
       i # j => created_order[i] # created_order[j]
  /\ {created_order[i] : i \in 1..Len(created_order)} = DOMAIN executions
  /\ ret.op = "list_executions" =>
       \A i, j \in 1..Len(ret.val) :
         i # j => ret.val[i].execution_id # ret.val[j].execution_id

\* C21: concurrent update_status calls on one id are serialized, and the last
\* writer wins: whenever no call holds the lock, the record is the one that
\* the calls applied whole, one at a time in the order in which they acquired
\* the lock, leave: the status of the last call, and the result and the error
\* of the last call that gave one.
C21_LastWriterWins ==
  lock = None =>
    \A id \in DOMAIN serial :
      id \in DOMAIN executions /\ executions[id] = serial[id]

\* an update_status call has returned a record that carries a result, an
\* error and a later updated_at, while the other thread waits for the lock
\* with an update_status call of another status for the same id
C21_Witness ==
  /\ ret.op = "update_status"
  /\ ret.kind = "detail"
  /\ lock = None
  /\ executions[ret.id] = ret.val
  /\ ret.val.result # None
  /\ ret.val.error # None
  /\ ret.val.updated_at > ret.val.created_at
  /\ \E t \in Threads :
       /\ frames[t].pc = "update"
       /\ frames[t].id = ret.id
       /\ frames[t].status # ret.val.status

\* the log buffer of the polled id
PolledBuffer == DictGet(logs, PollId, <<>>)

\* C22: a poller that starts at offset 0 and calls read_logs again and again
\* at the next_offset it was given receives every line of the buffer once and
\* in buffer order, under every interleaving with append_logs and
\* update_status: what it has received is the buffer up to its offset; a read
\* that returns eof = true leaves it with the whole buffer; and once the
\* runner has stopped after a terminal update_status, the poller eventually
\* receives eof = true and holds the whole buffer.
C22_PollerReceivesAll ==
  /\ [](/\ poller.offset = Len(poller.received)
        /\ poller.offset <= Len(PolledBuffer)
        /\ poller.received = SubSeq(PolledBuffer, 1, poller.offset))
  /\ [][(poller' # poller /\ poller'.eof) =>
          poller'.received = DictGet(logs', PollId, <<>>)]_vars
  /\ (runner_done ~> (poller.eof /\ poller.received = PolledBuffer))

\* the runner has stopped and the poller has received eof with a buffer of
\* three lines, which took it at least two reads
C22_Witness ==
  /\ runner_done
  /\ poller.eof
  /\ Len(PolledBuffer) = 3
  /\ poller.received = PolledBuffer

====
